---- MODULE Spec2Model ----
(***************************************************************************)
(* Internet Complaint Register API: the complaint lifecycle and the        *)
(* notifications it triggers (main.py, schemas.py).                        *)
(*                                                                         *)
(* The two collections of the record store are the state.  A handler that  *)
(* writes a complaint and then a notification performs two separate store  *)
(* writes; the handler is "in flight" between them, and other handlers may *)
(* run in between; one that dies there stays in flight for ever.           *)
(* Timestamps (created_at, updated_at, note timestamp) are not             *)
(* represented.                                                            *)
(***************************************************************************)
EXTENDS Integers, Sequences, FiniteSets, Bags, TLC

VARIABLES db, complaint, notification, inflight, last, calls

vars == <<db, complaint, notification, inflight, last, calls>>

(***************************************************************************)
(* Bounds                                                                  *)
(***************************************************************************)
\* Requests served in one behaviour, and complaints created.
MaxCalls == 3

MaxComplaints == 1

(***************************************************************************)
(* Values                                                                  *)
(***************************************************************************)
None == "None"

Truthy(v) == v # None /\ v # ""

\* An identifier as it travels in a URL or in related_complaint_id: a string
\* that is either the 24-hex rendering of an ObjectId (hex, with the
\* ObjectId's value) or some other text.
Str(objectId) == [hex |-> TRUE, val |-> objectId]

Malformed == [hex |-> FALSE, val |-> 0]

InvalidId == 0

oid(id_str) == IF id_str.hex THEN id_str.val ELSE InvalidId

\* The store hands out a fresh ObjectId on every insert.
NextObjectId == Len(complaint) + Len(notification) + 1

\* The identifiers a caller tries on a collection: those of its documents,
\* one that was never issued, and one that is not an ObjectId.
IdStrings(coll) ==
    {Str(coll[i]._id) : i \in 1..Len(coll)} \cup {Str(NextObjectId), Malformed}

(***************************************************************************)
(* schemas.py                                                              *)
(***************************************************************************)
ComplaintFields ==
    {"customer_name", "customer_contact", "address", "subject", "description",
     "priority", "status", "assigned_team", "notes"}

ComplaintDefaults ==
    [address |-> None, priority |-> "normal", status |-> "pending",
     assigned_team |-> None, notes |-> <<>>]

\* Complaint(**body): supplied fields are kept, omitted ones take the default.
Complaint(body) ==
    [f \in ComplaintFields |->
        IF f \in DOMAIN body THEN body[f] ELSE ComplaintDefaults[f]]

Notification(user_id, title, message, type, related_complaint_id) ==
    [user_id |-> user_id, title |-> title, message |-> message,
     type |-> type, is_read |-> FALSE,
     related_complaint_id |-> related_complaint_id]

(***************************************************************************)
(* Request DTOs (main.py)                                                  *)
(***************************************************************************)
ComplaintCreate(body) == Complaint(body)

UpdateFields ==
    {"subject", "description", "priority", "status", "assigned_team", "note"}

ComplaintUpdate_statusDefault(body) ==
    [f \in UpdateFields |->
        IF f \in DOMAIN body THEN body[f]
        ELSE IF f = "status" THEN "pending" ELSE None]

\* ComplaintUpdate(**body): every field is optional and defaults to None.
ComplaintUpdate(body) ==
    [f \in UpdateFields |-> IF f \in DOMAIN body THEN body[f] ELSE None]

\* MarkReadRequest(**body): is_read defaults to True.
MarkReadRequest_defaultFalse(body) ==
    [is_read |-> IF "is_read" \in DOMAIN body THEN body.is_read ELSE FALSE]

MarkReadRequest(body) ==
    [is_read |-> IF "is_read" \in DOMAIN body THEN body.is_read ELSE TRUE]

(***************************************************************************)
(* Request bodies                                                          *)
(***************************************************************************)
RequiredBody ==
    [customer_name |-> "A", customer_contact |-> "a@x.com",
     subject |-> "No signal", description |-> "d1"]

OptionalValues ==
    [status |-> {"complete"},
     assigned_team |-> {"NetOps"}, notes |-> {<<[text |-> "n0"]>>}]

\* The required fields alone, or with one of the optional fields.
CreateBodies ==
    {RequiredBody}
    \cup UNION {{RequiredBody @@ extra : extra \in [{f} -> OptionalValues[f]]} :
                f \in DOMAIN OptionalValues}

UpdateValues ==
    [subject |-> {"s2"}, description |-> {"d2"}, priority |-> {"high"},
     status |-> {"pending", "complete", "archived"},
     assigned_team |-> {"FieldOps"}, note |-> {"", "n1"}]

\* Bodies that supply one field, bodies that supply two, and a body whose
\* only field is a null.
UpdateBodies ==
    UNION {[{f} -> UpdateValues[f]] :
            f \in {"subject", "status", "assigned_team", "note"}}
    \cup {[description |-> "d2", priority |-> "high"],
          [status |-> "complete", note |-> "n1"],
          [assigned_team |-> None]}

Teams == {"NetOps", ""}

MarkBodies == {<<>>} \cup {[is_read |-> b] : b \in BOOLEAN}

(***************************************************************************)
(* Record store                                                            *)
(***************************************************************************)
\* The position in a collection of the document whose _id is id, 0 if none.
Find(coll, id) ==
    IF \E i \in 1..Len(coll) : coll[i]._id = id
    THEN CHOOSE i \in 1..Len(coll) : coll[i]._id = id
    ELSE 0

\* create_document(collection, data): insert the document, return its id.
create_document(coll, data) ==
    Append(coll, data @@ [_id |-> NextObjectId])

\* $set: replace (or add) the fields named in fields.
Set(doc, fields) ==
    [f \in DOMAIN doc \cup DOMAIN fields |->
        IF f \in DOMAIN fields THEN fields[f] ELSE doc[f]]

Push_prepend(doc, f, entry) == [doc EXCEPT ![f] = <<entry>> \o @]

\* $push: append entry to the list field f.
Push(doc, f, entry) == [doc EXCEPT ![f] = Append(@, entry)]

matched_count_unchecked(coll, id) == 1

\* result.matched_count of an update_one that filters by _id.
matched_count(coll, id) == IF Find(coll, id) = 0 THEN 0 ELSE 1

ApplyUpdateOp_forwardOnly(doc, update_op) ==
    LET closed == "status" \in DOMAIN doc /\ doc.status = "complete"
        set == IF closed
               THEN [k \in DOMAIN update_op.set \ {"status"} |->
                        update_op.set[k]]
               ELSE update_op.set
    IN  IF "push" \in DOMAIN update_op
        THEN Push(Set(doc, set), "notes", update_op.push)
        ELSE Set(doc, set)

ApplyUpdateOp(doc, update_op) ==
    IF "push" \in DOMAIN update_op
    THEN Push(Set(doc, update_op.set), "notes", update_op.push)
    ELSE Set(doc, update_op.set)

\* update_one(filter by _id, update_op): one atomic write of the matched
\* document; the collection is unchanged when nothing matches.
update_one(coll, id, update_op) ==
    IF Find(coll, id) = 0 THEN coll
    ELSE [coll EXCEPT ![Find(coll, id)] = ApplyUpdateOp(@, update_op)]

(***************************************************************************)
(* Handlers                                                                *)
(***************************************************************************)
NoId == [hex |-> FALSE, val |-> -1]

\* What the last handler step did: ev is "write" when the handler has made
\* its complaint write and still has its notification to write, "return"
\* when it answered with code.  A handler that dies between its two writes
\* is one that stays in flight for ever.
Event(op, ev, id, arg, wrote, code) ==
    [op |-> op, ev |-> ev, id |-> id, arg |-> arg, wrote |-> wrote,
     code |-> code]

Pending(op, id, arg, notif) ==
    [op |-> op, id |-> id, arg |-> arg, notif |-> notif]

\* A request is served.
Called ==
    /\ calls < MaxCalls
    /\ calls' = calls + 1

\* The handler raises HTTPException(code) before it wrote anything.
Fails(op, id, code) ==
    /\ last' = Event(op, "return", id, <<>>, FALSE, code)
    /\ UNCHANGED <<complaint, notification, inflight>>

Init ==
    /\ db \in BOOLEAN
    /\ complaint = <<>>
    /\ notification = <<>>
    /\ inflight = EmptyBag
    /\ last = Event("none", "init", NoId, <<>>, FALSE, 0)
    /\ calls = 0

create_complaint_notif_toReporter(payload, comp_id) ==
    Notification(payload.customer_name, "New complaint submitted",
                 [reporter |-> payload.customer_name,
                  reported |-> payload.subject],
                 "info", comp_id)

create_complaint_notif(payload, comp_id) ==
    Notification("admin", "New complaint submitted",
                 [reporter |-> payload.customer_name,
                  reported |-> payload.subject],
                 "info", comp_id)

\* POST /api/complaints, up to the complaint insert.  Without a database
\* handle the insert raises.
create_complaint(body) ==
    LET payload == ComplaintCreate(body)
        comp_id == Str(NextObjectId)
    IN  /\ Called
        /\ UNCHANGED db
        /\ IF ~db
           THEN Fails("create", NoId, 500)
           ELSE /\ Len(complaint) < MaxComplaints
                /\ complaint' = create_document(complaint, payload)
                /\ inflight' = inflight (+) SetToBag({Pending("create",
                        comp_id, body,
                        create_complaint_notif(payload, comp_id))})
                /\ last' = Event("create", "write", comp_id, body, TRUE, 0)
                /\ UNCHANGED notification

update_fields_assigns(payload) ==
    LET given == [k \in {k \in DOMAIN payload :
                            payload[k] # None /\ k # "note"} |-> payload[k]]
    IN  IF "assigned_team" \in DOMAIN given
        THEN [status |-> "process"] @@ given
        ELSE given

update_fields_keepNone(payload) ==
    [k \in {k \in DOMAIN payload : k # "note"} |-> payload[k]]

update_fields(payload) ==
    [k \in {k \in DOMAIN payload : payload[k] # None /\ k # "note"} |->
        payload[k]]

update_op_setNotes(payload) ==
    IF Truthy(payload.note)
    THEN [set |-> update_fields(payload)
                    @@ [notes |-> <<[text |-> payload.note]>>]]
    ELSE [set |-> update_fields(payload)]

update_op_pushOnly(payload) ==
    IF Truthy(payload.note)
    THEN [set |-> <<>>, push |-> [text |-> payload.note]]
    ELSE [set |-> update_fields(payload)]

update_op(payload) ==
    IF Truthy(payload.note)
    THEN [set |-> update_fields(payload), push |-> [text |-> payload.note]]
    ELSE [set |-> update_fields(payload)]

update_complaint_notif_alwaysInfo(complaint_id, fields) ==
    Notification("admin", "Complaint status updated",
                 [complaint |-> complaint_id, status |-> fields.status],
                 "info", complaint_id)

update_complaint_notif(complaint_id, fields) ==
    Notification("admin", "Complaint status updated",
                 [complaint |-> complaint_id, status |-> fields.status],
                 IF fields.status = "complete" THEN "success" ELSE "info",
                 complaint_id)

\* PATCH /api/complaints/{complaint_id}, up to the complaint write; the
\* whole handler when no notification follows.
update_complaint(complaint_id, body) ==
    LET payload == ComplaintUpdate(body)
        fields == update_fields(payload)
    IN  /\ Called
        /\ UNCHANGED db
        /\ IF ~db
           THEN Fails("update", complaint_id, 500)
           ELSE IF oid(complaint_id) = InvalidId
           THEN Fails("update", complaint_id, 400)
           ELSE IF matched_count(complaint, oid(complaint_id)) = 0
           THEN Fails("update", complaint_id, 404)
           ELSE /\ complaint' = update_one(complaint, oid(complaint_id),
                                           update_op(payload))
                /\ UNCHANGED notification
                /\ IF "status" \in DOMAIN fields
                   THEN /\ inflight' = inflight (+) SetToBag({Pending(
                                "update", complaint_id, body,
                                update_complaint_notif(complaint_id, fields))})
                        /\ last' = Event("update", "write", complaint_id,
                                         body, TRUE, 0)
                   ELSE /\ inflight' = inflight
                        /\ last' = Event("update", "return", complaint_id,
                                         body, TRUE, 200)

assign_team_notif(complaint_id, team) ==
    Notification(team, "New assignment", [complaint |-> complaint_id],
                 "warning", complaint_id)

assign_team_op_teamOnly(team) ==
    [set |-> [assigned_team |-> team]]

assign_team_op(team) ==
    [set |-> [assigned_team |-> team, status |-> "process"]]

\* POST /api/complaints/{complaint_id}/assign, up to the complaint write.
assign_team(complaint_id, team) ==
    /\ Called
    /\ UNCHANGED db
    /\ IF ~db
       THEN Fails("assign", complaint_id, 500)
       ELSE IF oid(complaint_id) = InvalidId
       THEN Fails("assign", complaint_id, 400)
       ELSE IF matched_count(complaint, oid(complaint_id)) = 0
       THEN Fails("assign", complaint_id, 404)
       ELSE /\ complaint' = update_one(complaint, oid(complaint_id),
                                       assign_team_op(team))
            /\ UNCHANGED notification
            /\ inflight' = inflight (+) SetToBag({Pending("assign",
                    complaint_id, team, assign_team_notif(complaint_id, team))})
            /\ last' = Event("assign", "write", complaint_id, team, TRUE, 0)

\* PATCH /api/notifications/{notification_id}
mark_notification(notification_id, body) ==
    LET req == MarkReadRequest(body)
    IN  /\ Called
        /\ UNCHANGED <<db, complaint, inflight>>
        /\ IF ~db
           THEN Fails("mark", notification_id, 500)
           ELSE IF oid(notification_id) = InvalidId
           THEN Fails("mark", notification_id, 400)
           ELSE IF matched_count(notification, oid(notification_id)) = 0
           THEN Fails("mark", notification_id, 404)
           ELSE /\ notification' = update_one(notification,
                        oid(notification_id), [set |-> [is_read |-> req.is_read]])
                /\ last' = Event("mark", "return", notification_id, body,
                                 TRUE, 200)

\* get_documents(collection, {"_id": id}): the documents that match.
get_documents(coll, id) ==
    IF Find(coll, id) = 0 THEN <<>> ELSE <<coll[Find(coll, id)]>>

\* GET /api/complaints/{complaint_id}: oid() is evaluated while the filter
\* is built, before get_documents is called.
get_complaint(complaint_id) ==
    /\ Called
    /\ UNCHANGED db
    /\ IF oid(complaint_id) = InvalidId
       THEN Fails("get", complaint_id, 400)
       ELSE IF ~db
       THEN Fails("get", complaint_id, 500)
       ELSE IF get_documents(complaint, oid(complaint_id)) = <<>>
       THEN Fails("get", complaint_id, 404)
       ELSE /\ last' = Event("get", "return", complaint_id, <<>>, FALSE, 200)
            /\ UNCHANGED <<complaint, notification, inflight>>

SuccessCode(op) == IF op = "create" THEN 201 ELSE 200

emit_notification_dedup(r) ==
    /\ BagIn(r, inflight)
    /\ notification' =
            IF \E k \in 1..Len(notification) :
                    [f \in DOMAIN r.notif |-> notification[k][f]] = r.notif
            THEN notification
            ELSE create_document(notification, r.notif)
    /\ inflight' = inflight (-) SetToBag({r})
    /\ last' = Event(r.op, "return", r.id, r.arg, FALSE, SuccessCode(r.op))
    /\ UNCHANGED <<db, complaint, calls>>

\* The second half of create_complaint, update_complaint and assign_team:
\* the notification insert, then the answer.
emit_notification(r) ==
    /\ BagIn(r, inflight)
    /\ notification' = create_document(notification, r.notif)
    /\ inflight' = inflight (-) SetToBag({r})
    /\ last' = Event(r.op, "return", r.id, r.arg, FALSE, SuccessCode(r.op))
    /\ UNCHANGED <<db, complaint, calls>>

\* The notification insert raises: nothing catches it in the handler.
notification_fails(r) ==
    /\ BagIn(r, inflight)
    /\ inflight' = inflight (-) SetToBag({r})
    /\ last' = Event(r.op, "return", r.id, r.arg, FALSE, 500)
    /\ UNCHANGED <<db, complaint, notification, calls>>

Next ==
    \/ \E body \in CreateBodies : create_complaint(body)
    \/ \E id \in IdStrings(complaint), body \in UpdateBodies : update_complaint(id, body)
    \/ \E id \in IdStrings(complaint), team \in Teams : assign_team(id, team)
    \/ \E id \in IdStrings(complaint) : get_complaint(id)
    \/ \E id \in IdStrings(notification), body \in MarkBodies : mark_notification(id, body)
    \/ \E r \in BagToSet(inflight) : emit_notification(r)
    \/ \E r \in BagToSet(inflight) : notification_fails(r)

Spec == Init /\ [][Next]_vars

(***************************************************************************)
(* Properties                                                              *)
(***************************************************************************)
Doc(id_str) == complaint[Find(complaint, oid(id_str))]

DocAfter(id_str) == complaint'[Find(complaint', oid(id_str))]

Supplied(body, f) == f \in DOMAIN body /\ body[f] # None

\* The step just taken is the complaint write of a handler of kind op.
Wrote(op) == last'.op = op /\ last'.wrote

\* The step just taken is the successful answer of a handler of kind op.
Succeeded(op) ==
    last'.op = op /\ last'.ev = "return" /\ last'.code \in {200, 201}

\* The step just taken appended exactly one notification and changed no other.
AddsOne ==
    /\ Len(notification') = Len(notification) + 1
    /\ SubSeq(notification', 1, Len(notification)) = notification

Added == notification'[Len(notification')]

\* C1: every accepted create-complaint request stores a complaint with
\* status = pending, assigned_team absent and notes empty, whatever fields
\* the request carries.
C1_CreateStartsPending ==
    (last.op = "create" /\ last.ev = "write") =>
        /\ Doc(last.id).status = "pending"
        /\ Doc(last.id).assigned_team = None
        /\ Doc(last.id).notes = <<>>

\* C2: a successful assign-team call leaves the complaint with
\* status = process and assigned_team = the given team whatever the status
\* was before, and adds exactly one notification: a warning addressed to
\* the team and referencing the complaint.
C2_AssignForcesProcessAndWarns ==
    [][/\ Wrote("assign") =>
            /\ DocAfter(last'.id).status = "process"
            /\ DocAfter(last'.id).assigned_team = last'.arg
            /\ last'.ev = "write"
            /\ notification' = notification
       /\ Succeeded("assign") =>
            /\ ~last'.wrote
            /\ AddsOne
            /\ Added.type = "warning"
            /\ Added.user_id = last'.arg
            /\ Added.related_complaint_id = last'.id
            /\ complaint' = complaint]_vars

C2_Witness ==
    /\ last.op = "assign" /\ last.ev = "return" /\ last.code = 200
    /\ Doc(last.id).status = "process"
    /\ Doc(last.id).assigned_team = "NetOps"
    /\ \E i \in 1..Len(notification) :
            /\ notification[i].type = "success"
            /\ notification[i].related_complaint_id = last.id
    /\ notification[Len(notification)].type = "warning"

\* C3: a successful update call that supplies status adds exactly one
\* notification, addressed to admin and referencing the complaint, of type
\* success if the supplied status is complete and info otherwise.
C3_StatusUpdateNotifiesAdmin ==
    [][/\ (Wrote("update") /\ Supplied(last'.arg, "status")) =>
            /\ last'.ev = "write"
            /\ notification' = notification
       /\ Succeeded("update") /\ Supplied(last'.arg, "status") =>
            /\ ~last'.wrote
            /\ AddsOne
            /\ Added.user_id = "admin"
            /\ Added.related_complaint_id = last'.id
            /\ Added.type \in {"success", "info"}
            /\ Added.type = "success" <=> last'.arg.status = "complete"]_vars

C3_Witness ==
    /\ last.op = "update" /\ last.ev = "return" /\ last.code = 200
    /\ Supplied(last.arg, "status")
    /\ \E i, j \in 1..Len(notification) :
            /\ notification[i].title = "Complaint status updated"
            /\ notification[j].title = "Complaint status updated"
            /\ notification[i].type = "success"
            /\ notification[j].type = "info"

\* C4: an update call that does not supply status adds no notification, now
\* or later: the notifications are unchanged and no notification is pending.
C4_NoStatusNoNotification ==
    [][(last'.op = "update" /\ ~Supplied(last'.arg, "status")) =>
            /\ notification' = notification
            /\ inflight' = inflight
            /\ last'.ev = "return"]_vars

C4_Witness ==
    /\ last.op = "update" /\ last.wrote /\ last.code = 200
    /\ ~Supplied(last.arg, "status")
    /\ Supplied(last.arg, "note")
    /\ Doc(last.id).notes # <<>>
    /\ notification = <<>>

\* C5: a successful create-complaint call adds exactly one notification:
\* addressed to admin, of type info, unread, with related_complaint_id the
\* identifier of the complaint just created; no other notification is added
\* or changed.
C5_CreateNotifiesAdmin ==
    [][/\ Wrote("create") =>
            /\ last'.ev = "write"
            /\ notification' = notification
            /\ Len(complaint') = Len(complaint) + 1
            /\ Str(complaint'[Len(complaint')]._id) = last'.id
       /\ Succeeded("create") =>
            /\ ~last'.wrote
            /\ AddsOne
            /\ Added.user_id = "admin"
            /\ Added.type = "info"
            /\ Added.is_read = FALSE
            /\ Added.related_complaint_id = last'.id
            /\ Find(complaint, oid(last'.id)) # 0]_vars

C5_Witness ==
    /\ last.op = "create" /\ last.ev = "return" /\ last.code = 201
    /\ Len(notification) = 2
    /\ notification[1].type = "warning"
    /\ notification[2].related_complaint_id = Str(complaint[1]._id)
    /\ notification[2].type = "info"

IsPrefix(s, t) == Len(s) <= Len(t) /\ SubSeq(t, 1, Len(s)) = s

\* C6: notes are append-only: no step of create, update, assign or
\* mark-read removes a complaint, and the notes a complaint had before the
\* step are a prefix of the notes it has after it.
C6_NotesAppendOnly ==
    [][/\ Len(complaint) <= Len(complaint')
       /\ \A i \in 1..Len(complaint) :
            /\ complaint'[i]._id = complaint[i]._id
            /\ IsPrefix(complaint[i].notes, complaint'[i].notes)]_vars

C6_Witness ==
    /\ last.op = "update" /\ last.wrote
    /\ Doc(last.id).notes = <<[text |-> "n0"], [text |-> "n1"], [text |-> "n1"]>>

Updatable == {"subject", "description", "priority", "status", "assigned_team"}

\* C7: a successful update sets each of subject, description, priority,
\* status and assigned_team that was supplied to the supplied value and
\* leaves every other field but notes, and every other complaint, as it was.
C7_PartialUpdate ==
    [][Wrote("update") =>
        LET i == Find(complaint, oid(last'.id))
        IN  /\ i # 0
            /\ Len(complaint') = Len(complaint)
            /\ DOMAIN complaint'[i] = DOMAIN complaint[i]
            /\ \A f \in DOMAIN complaint[i] \ {"notes"} :
                    IF f \in Updatable /\ Supplied(last'.arg, f)
                    THEN complaint'[i][f] = last'.arg[f]
                    ELSE complaint'[i][f] = complaint[i][f]
            /\ \A j \in 1..Len(complaint) :
                    j # i => complaint'[j] = complaint[j]]_vars

C7_Witness ==
    /\ last.op = "update" /\ last.wrote
    /\ DOMAIN last.arg = {"note"}
    /\ Doc(last.id).status = "complete"
    /\ Doc(last.id).notes # <<>>
    /\ Doc(last.id).subject = "No signal"
    /\ Doc(last.id).customer_name = "A"

\* What one update does to a document when it is applied as one unit.
SerialEffect(d, body) ==
    [f \in DOMAIN d |->
        IF f = "notes"
        THEN IF Supplied(body, "note") /\ body.note # ""
             THEN Append(d.notes, [text |-> body.note])
             ELSE d.notes
        ELSE IF Supplied(body, f) THEN body[f] ELSE d[f]]

\* C8: updates applied concurrently to one complaint take effect one after
\* the other, each as one unit: the write of an update turns the document
\* the store holds at that moment, other updates' effects included, into the
\* same document with all of its supplied fields replaced and its note
\* appended, so the last writer of a field wins and no field change lands
\* without its note.
C8_UpdatesSerialize ==
    [][Wrote("update") =>
        LET i == Find(complaint, oid(last'.id))
        IN  /\ i # 0
            /\ complaint' = [complaint EXCEPT
                                ![i] = SerialEffect(@, last'.arg)]]_vars

\* Two updates of one complaint are in flight together; both notes landed
\* and the status is the second writer's.
C8_Witness ==
    /\ last.op = "update" /\ last.ev = "write"
    /\ last.arg = [status |-> "complete", note |-> "n1"]
    /\ \E r \in BagToSet(inflight) :
            /\ r.op = "update" /\ r.id = last.id
            /\ r.arg = [status |-> "pending"]
    /\ CopiesIn(Pending("update", last.id, last.arg,
                         update_complaint_notif(last.id, last.arg)),
                 inflight) = 1
    /\ Doc(last.id).status = "complete"
    /\ Doc(last.id).notes = <<[text |-> "n1"]>>

\* C9: a notification is written only after the complaint write that
\* triggers it: every stored or pending notification refers to a complaint
\* that is in the store, and a step that stores a notification is the second
\* step of a handler whose complaint write was made in an earlier step.
C9_NotificationAfterWrite ==
    [][/\ \A k \in 1..Len(notification') :
            Find(complaint', oid(notification'[k].related_complaint_id)) # 0
       /\ \A r \in BagToSet(inflight') : Find(complaint', oid(r.id)) # 0
       /\ Len(notification') > Len(notification) =>
            /\ complaint' = complaint
            /\ \E r \in BagToSet(inflight) :
                    /\ inflight' = inflight (-) SetToBag({r})
                    /\ Added.related_complaint_id = r.id
                    /\ Find(complaint, oid(r.id)) # 0]_vars

\* The complaint is written and its notification is not (yet, or ever).
C9_Witness ==
    /\ last.op = "assign" /\ last.ev = "write"
    /\ Doc(last.id).assigned_team = "NetOps"
    /\ notification = <<>>
    /\ BagCardinality(inflight) = 2

\* C10: when the notification write of a create, update or assign fails
\* after its complaint write, the complaint keeps what was written and the
\* operation answers success.
C10_NotificationFailureNotSurfaced ==
    [][(/\ BagCardinality(inflight') < BagCardinality(inflight)
        /\ notification' = notification) =>
            /\ complaint' = complaint
            /\ last'.code \in {200, 201}]_vars

\* The collection a handler of kind op addresses.
Addressed(op) == IF op = "mark" THEN notification ELSE complaint

\* The step just taken is the first step of a handler of kind op.
Served(op) == calls' = calls + 1 /\ last'.op = op

\* C11: with the store available, an update, assign or mark-read call whose
\* identifier is well formed and matches no record answers 404 NotFound,
\* leaves every complaint and every notification as it was and emits no
\* notification.
C11_UnknownIdNotFound ==
    [][\A op \in {"update", "assign", "mark"} :
        (/\ Served(op)
         /\ db
         /\ last'.id.hex
         /\ Find(Addressed(op), oid(last'.id)) = 0) =>
            /\ last'.ev = "return"
            /\ last'.code = 404
            /\ UNCHANGED <<complaint, notification, inflight>>]_vars

\* An assign named a complaint that does not exist while another does.
C11_Witness ==
    /\ last.op = "assign" /\ last.code = 404
    /\ last.id.hex
    /\ Len(complaint) = 1
    /\ Len(notification) = 1
    /\ inflight = EmptyBag

\* C12: in every state, a get, update, assign or mark-read call with a
\* malformed identifier answers 400 BadId, not 404 and not 500, and the
\* store is left as it was.
C12_MalformedIdIsBadId ==
    [][\A op \in {"get", "update", "assign", "mark"} :
        (Served(op) /\ ~last'.id.hex) =>
            /\ last'.code = 400
            /\ UNCHANGED <<complaint, notification, inflight>>]_vars

\* C13: the status of every stored complaint is one of pending, process and
\* complete.
C13_StatusInDomain ==
    \A i \in 1..Len(complaint) :
        complaint[i].status \in {"pending", "process", "complete"}

\* C14: an assign call whose team is the empty string is rejected: it never
\* writes the complaint and never emits a notification.
C14_EmptyTeamRejected ==
    [][/\ ~(Wrote("assign") /\ last'.arg = "")
       /\ ~(Succeeded("assign") /\ last'.arg = "")]_vars

\* The event e is one that triggers a notification: a create, an update
\* that supplied status, or an assign.
Triggers(e) ==
    \/ e.op \in {"create", "assign"}
    \/ e.op = "update" /\ Supplied(e.arg, "status")

SameContent(m, n) ==
    [f \in DOMAIN m \ {"_id"} |-> m[f]] = [f \in DOMAIN n \ {"_id"} |-> n[f]]

\* C15: the stored notifications are counted one per successful triggering
\* event: the successful answer of a create, of an update that supplied
\* status, or of an assign adds exactly one notification, whether or not an
\* identical one is stored already, and no other step adds or removes one.
C15_OneNotificationPerEvent ==
    [][IF last'.ev = "return" /\ last'.code \in {200, 201} /\ Triggers(last')
       THEN AddsOne
       ELSE Len(notification') = Len(notification)]_vars

\* The same status was supplied twice and was the status already: two
\* notifications of the same content are stored.
C15_Witness ==
    /\ last.op = "update" /\ last.ev = "return" /\ last.code = 200
    /\ last.arg = [status |-> "pending"]
    /\ inflight = EmptyBag
    /\ Len(notification) = 3
    /\ SameContent(notification[2], notification[3])

\* C16: a successful mark-read call sets is_read of the addressed
\* notification to the supplied boolean, to true when none is supplied, and
\* changes no other notification and no complaint; no other step changes
\* is_read of a stored notification, and a notification is stored unread.
C16_MarkSetsIsRead ==
    [][/\ Wrote("mark") =>
            LET i == Find(notification, oid(last'.id))
            IN  /\ i # 0
                /\ notification' =
                      [notification EXCEPT ![i].is_read =
                          IF "is_read" \in DOMAIN last'.arg
                          THEN last'.arg.is_read ELSE TRUE]
                /\ complaint' = complaint
       /\ ~Wrote("mark") =>
            /\ Len(notification') >= Len(notification)
            /\ \A k \in 1..Len(notification) :
                    notification'[k].is_read = notification[k].is_read
            /\ \A k \in (Len(notification) + 1)..Len(notification') :
                    notification'[k].is_read = FALSE]_vars

\* A mark-read call without a body marked one of two notifications.
C16_Witness ==
    /\ last.op = "mark" /\ last.code = 200
    /\ last.arg = <<>>
    /\ Len(notification) = 2
    /\ notification[Find(notification, oid(last.id))].is_read
    /\ \E k \in 1..2 : ~notification[k].is_read

C18_NoteAppendsOneEntry ==
    [][/\ Wrote("update") =>
            LET old == Doc(last'.id).notes
                new == DocAfter(last'.id).notes
            IN  IF Supplied(last'.arg, "note") /\ last'.arg.note # ""
                THEN new = Append(old, [text |-> last'.arg.note])
                ELSE new = old
       /\ Wrote("assign") =>
            DocAfter(last'.id).notes = Doc(last'.id).notes]_vars

\* A note was added after the one the complaint already had.
C18_Witness ==
    /\ last.op = "update" /\ last.code = 200
    /\ last.arg = [note |-> "n1"]
    /\ Doc(last.id).notes = <<[text |-> "n0"], [text |-> "n1"]>>

\* C19: the write of an update that supplies assigned_team sets the
\* complaint's team, leaves the status as it was unless status is supplied
\* too, and neither stores nor schedules a notification for a team; a
\* warning notification is stored only by the successful answer of an
\* assign, one per answer, addressed to the assigned team.
C19_OnlyAssignWarnsTeam ==
    [][/\ (Wrote("update") /\ Supplied(last'.arg, "assigned_team")) =>
            /\ DocAfter(last'.id).assigned_team = last'.arg.assigned_team
            /\ \/ Supplied(last'.arg, "status")
               \/ DocAfter(last'.id).status = Doc(last'.id).status
            /\ notification' = notification
       /\ \A r \in BagToSet(inflight') :
            r.notif.type = "warning" => r.op = "assign"
       /\ \A k \in (Len(notification) + 1)..Len(notification') :
            notification'[k].type = "warning" =>
                /\ Succeeded("assign")
                /\ AddsOne
                /\ notification'[k].user_id = last'.arg]_vars

\* An update set the team of a pending complaint; no warning is stored.
C19_Witness ==
    /\ last.op = "update" /\ last.code = 200
    /\ last.arg = [assigned_team |-> "FieldOps"]
    /\ Doc(last.id).assigned_team = "FieldOps"
    /\ Doc(last.id).status = "pending"
    /\ inflight = EmptyBag
    /\ Len(notification) = 1
    /\ notification[1].type # "warning"

\* C20: once assigned_team of a complaint is set, no step returns it to
\* absent.
C20_AssignedTeamNeverCleared ==
    [][\A i \in 1..Len(complaint) :
        complaint[i].assigned_team # None =>
            /\ i <= Len(complaint')
            /\ complaint'[i].assigned_team # None]_vars

\* An update supplied a null assigned_team for a complaint that has a team.
C20_Witness ==
    /\ last.op = "update" /\ last.code = 200
    /\ last.arg = [assigned_team |-> None]
    /\ Doc(last.id).assigned_team = "NetOps"

====
